---- MODULE Spec2Model ----
(***************************************************************************)
(* Model of knative.dev/pkg: the Stackdriver monitored-resource and        *)
(* metric-type dispatch (metrics/stackdriver_exporter.go and the           *)
(* monitoredresources packages) and the Destination validation.            *)
(*                                                                         *)
(* Strings that the code joins with path.Join are kept as sequences of     *)
(* path segments: "knative.dev/eventing/broker" is                         *)
(* <<"knative.dev", "eventing", "broker">>.  All other strings are TLA+    *)
(* strings.  A Go nil pointer is the record Nil; a nil *apis.FieldError   *)
(* is the empty sequence of errors.                                        *)
(***************************************************************************)
EXTENDS FiniteSets, Integers, Sequences, TLC

\* Longest tag list handed to the monitored-resource function.
MaxTags == 2

\* Largest absolute value of a minScale or maxScale handed to ScalerSpec.
MaxScaleInput == 2

Nil == [nil |-> TRUE]

-----------------------------------------------------------------------------
(* path.Join and path.Clean on segment sequences                           *)

RECURSIVE CleanFrom(_, _)
\* path.Clean for a relative path: drops empty and "." segments, lets ".."
\* remove the segment before it (a leading ".." stays).
CleanFrom(done, rest) ==
    IF rest = <<>> THEN done
    ELSE LET s == Head(rest) IN
         IF s = "" \/ s = "." THEN CleanFrom(done, Tail(rest))
         ELSE IF s = ".." /\ done # <<>> /\ done[Len(done)] # ".."
              THEN CleanFrom(SubSeq(done, 1, Len(done) - 1), Tail(rest))
              ELSE CleanFrom(Append(done, s), Tail(rest))

Clean(p) ==
    LET c == CleanFrom(<<>>, p) IN IF c = <<>> THEN <<".">> ELSE c

\* path.Join(a, b): the non-empty elements joined by "/", then cleaned.
\* With both elements empty the result is the empty string.
Join(a, b) == IF a = <<>> /\ b = <<>> THEN <<>> ELSE Clean(a \o b)

-----------------------------------------------------------------------------
(* metricskey constants                                                    *)

LabelProject == "project_id"
LabelLocation == "location"
LabelClusterName == "cluster_name"
LabelNamespaceName == "namespace_name"
ValueUnknown == "unknown"

LabelServiceName == "service_name"
LabelRouteName == "route_name"
LabelConfigurationName == "configuration_name"
LabelRevisionName == "revision_name"

LabelTriggerName == "trigger_name"
LabelBrokerName == "broker_name"
LabelImporterName == "importer_name"
LabelImporterKind == "importer_kind"
LabelTriggerTypeFilterAttribute == "filter_type"
LabelTriggerSourceFilterAttribute == "filter_source"

servingDomain == <<"knative.dev", "serving">>
eventingDomain == <<"knative.dev", "eventing">>
customMetricTypePrefix == <<"custom.googleapis.com", "knative.dev">>

KnativeRevisionLabels ==
    {LabelProject, LabelLocation, LabelClusterName, LabelNamespaceName,
     LabelServiceName, LabelConfigurationName, LabelRevisionName}

KnativeRevisionMetrics ==
    {<<"knative.dev", "serving", "activator", "request_count">>,
     <<"knative.dev", "serving", "autoscaler", "desired_pods">>}

KnativeTriggerLabels ==
    {LabelProject, LabelLocation, LabelClusterName, LabelNamespaceName,
     LabelTriggerName, LabelBrokerName}

KnativeTriggerMetrics ==
    {<<"knative.dev", "eventing", "trigger", "event_count">>,
     <<"knative.dev", "eventing", "trigger", "event_process_latencies">>,
     <<"knative.dev", "eventing", "trigger", "event_dispatch_latencies">>}

KnativeBrokerLabels ==
    {LabelProject, LabelLocation, LabelClusterName, LabelNamespaceName,
     LabelBrokerName}

KnativeBrokerMetricsOverlapping ==
    {<<"knative.dev", "eventing", "broker", "event_count">>,
     <<"knative.dev", "eventing", "trigger", "event_count">>}

KnativeBrokerMetrics ==
    {<<"knative.dev", "eventing", "broker", "event_count">>}

KnativeImporterLabels ==
    {LabelProject, LabelLocation, LabelClusterName, LabelNamespaceName,
     LabelImporterName, LabelImporterKind}

KnativeImporterMetrics ==
    {<<"knative.dev", "eventing", "importer", "event_count">>}

-----------------------------------------------------------------------------
(* monitoredresources helpers                                              *)

\* GetTagsMap: the tags as a map from key name to value; of two tags with
\* the same key the later one is kept.
GetTagsMap(tags) ==
    [k \in {tags[i].Key : i \in DOMAIN tags} |->
        LET last == CHOOSE i \in DOMAIN tags :
                        /\ tags[i].Key = k
                        /\ \A j \in DOMAIN tags : tags[j].Key = k => j <= i
        IN tags[last].Value]

ValueOrUnknown(key, tagsMap) ==
    IF key \in DOMAIN tagsMap THEN tagsMap[key] ELSE ValueUnknown

\* The tags whose key is not in the label set, in their input order.
KeepNonResourceTags(tags, labels) ==
    SelectSeq(tags, LAMBDA t : t.Key \notin labels)

-----------------------------------------------------------------------------
(* serving/monitored_resources.go                                          *)

GetKnativeRevisionMonitoredResource(tags, gm) ==
    LET tagsMap == GetTagsMap(tags) IN
    [newTags |-> KeepNonResourceTags(tags, KnativeRevisionLabels),
     mr |-> [struct |-> "KnativeRevision",
             Project |-> gm.Project,
             Location |-> gm.Location,
             ClusterName |-> gm.Cluster,
             NamespaceName |-> ValueOrUnknown(LabelNamespaceName, tagsMap),
             ServiceName |-> ValueOrUnknown(LabelServiceName, tagsMap),
             ConfigurationName |-> ValueOrUnknown(LabelConfigurationName, tagsMap),
             RevisionName |-> ValueOrUnknown(LabelRevisionName, tagsMap)]]

KnativeRevisionMonitoredResource(kr) ==
    [resType |-> "knative_revision",
     labels |-> (LabelProject :> kr.Project) @@
                (LabelLocation :> kr.Location) @@
                (LabelClusterName :> kr.ClusterName) @@
                (LabelNamespaceName :> kr.NamespaceName) @@
                (LabelServiceName :> kr.ServiceName) @@
                (LabelConfigurationName :> kr.ConfigurationName) @@
                (LabelRevisionName :> kr.RevisionName)]

-----------------------------------------------------------------------------
(* eventing/monitored_resources.go                                         *)

KnativeTriggerMonitoredResource(kt) ==
    [resType |-> "knative_trigger",
     labels |-> (LabelProject :> kt.Project) @@
                (LabelLocation :> kt.Location) @@
                (LabelClusterName :> kt.ClusterName) @@
                (LabelNamespaceName :> kt.NamespaceName) @@
                (LabelTriggerName :> kt.TriggerName) @@
                (LabelBrokerName :> kt.BrokerName) @@
                (LabelTriggerTypeFilterAttribute :> kt.TypeFilterAttribute) @@
                (LabelTriggerSourceFilterAttribute :> kt.SourceFilterAttribute)]

KnativeBrokerMonitoredResource(kb) ==
    [resType |-> "knative_broker",
     labels |-> (LabelProject :> kb.Project) @@
                (LabelLocation :> kb.Location) @@
                (LabelClusterName :> kb.ClusterName) @@
                (LabelNamespaceName :> kb.NamespaceName) @@
                (LabelBrokerName :> kb.BrokerName)]

KnativeImporterMonitoredResource(ki) ==
    [resType |-> "knative_importer",
     labels |-> (LabelProject :> ki.Project) @@
                (LabelLocation :> ki.Location) @@
                (LabelClusterName :> ki.ClusterName) @@
                (LabelNamespaceName :> ki.NamespaceName) @@
                (LabelImporterName :> ki.ImporterName) @@
                (LabelImporterKind :> ki.ImporterKind)]

GetKnativeBrokerMonitoredResourceFromTags(tags, gm) ==
    LET tagsMap == GetTagsMap(tags) IN
    [newTags |-> KeepNonResourceTags(tags, KnativeBrokerLabels),
     mr |-> [struct |-> "KnativeBroker",
             Project |-> ValueOrUnknown(LabelProject, tagsMap),
             Location |-> ValueOrUnknown(LabelLocation, tagsMap),
             ClusterName |-> ValueOrUnknown(LabelClusterName, tagsMap),
             NamespaceName |-> ValueOrUnknown(LabelNamespaceName, tagsMap),
             BrokerName |-> ValueOrUnknown(LabelBrokerName, tagsMap)]]

GetKnativeBrokerMonitoredResource(tags, gm) ==
    LET tagsMap == GetTagsMap(tags) IN
    [newTags |-> KeepNonResourceTags(tags, KnativeBrokerLabels),
     mr |-> [struct |-> "KnativeBroker",
             Project |-> gm.Project,
             Location |-> gm.Location,
             ClusterName |-> gm.Cluster,
             NamespaceName |-> ValueOrUnknown(LabelNamespaceName, tagsMap),
             BrokerName |-> ValueOrUnknown(LabelBrokerName, tagsMap)]]

GetKnativeTriggerMonitoredResourceAsBroker(tags, gm) ==
    GetKnativeBrokerMonitoredResource(tags, gm)

GetKnativeTriggerMonitoredResource(tags, gm) ==
    LET tagsMap == GetTagsMap(tags) IN
    [newTags |-> KeepNonResourceTags(tags, KnativeTriggerLabels),
     mr |-> [struct |-> "KnativeTrigger",
             Project |-> gm.Project,
             Location |-> gm.Location,
             ClusterName |-> gm.Cluster,
             NamespaceName |-> ValueOrUnknown(LabelNamespaceName, tagsMap),
             TriggerName |-> ValueOrUnknown(LabelTriggerName, tagsMap),
             BrokerName |-> ValueOrUnknown(LabelBrokerName, tagsMap),
             TypeFilterAttribute |->
                 ValueOrUnknown(LabelTriggerTypeFilterAttribute, tagsMap),
             SourceFilterAttribute |->
                 ValueOrUnknown(LabelTriggerSourceFilterAttribute, tagsMap)]]

GetKnativeImporterMonitoredResource(tags, gm) ==
    LET tagsMap == GetTagsMap(tags) IN
    [newTags |-> KeepNonResourceTags(tags, KnativeImporterLabels),
     mr |-> [struct |-> "KnativeImporter",
             Project |-> gm.Project,
             Location |-> gm.Location,
             ClusterName |-> gm.Cluster,
             NamespaceName |-> ValueOrUnknown(LabelNamespaceName, tagsMap),
             ImporterName |-> ValueOrUnknown(LabelImporterName, tagsMap),
             ImporterKind |-> ValueOrUnknown(LabelImporterKind, tagsMap)]]

\* monitoredresources.Global: resource type "global", no labels.
GlobalMonitoredResource == [resType |-> "global", labels |-> <<>>]

\* monitoredresource.Interface.MonitoredResource(), by the struct behind it.
MonitoredResource(mr) ==
    CASE mr.struct = "KnativeRevision" -> KnativeRevisionMonitoredResource(mr)
      [] mr.struct = "KnativeBroker" -> KnativeBrokerMonitoredResource(mr)
      [] mr.struct = "KnativeTrigger" -> KnativeTriggerMonitoredResource(mr)
      [] mr.struct = "KnativeImporter" -> KnativeImporterMonitoredResource(mr)
      [] mr.struct = "Global" -> GlobalMonitoredResource

-----------------------------------------------------------------------------
(* metrics/stackdriver_exporter.go                                         *)

getGlobalMonitoredResourceDroppingTags(v, tags) ==
    [newTags |-> <<>>, mr |-> [struct |-> "Global"]]

getGlobalMonitoredResource(v, tags) ==
    [newTags |-> tags, mr |-> [struct |-> "Global"]]

\* The closure returned by getMonitoredResourceFunc(metricTypePrefix, gm),
\* applied to a view and its tags.
getMonitoredResourceFunc(prefix, gmd, v, tagList) ==
    LET mt == Join(prefix, v.MeasureName) IN
    IF mt \in KnativeRevisionMetrics
    THEN GetKnativeRevisionMonitoredResource(tagList, gmd)
    ELSE IF mt \in KnativeBrokerMetrics
    THEN GetKnativeBrokerMonitoredResource(tagList, gmd)
    ELSE IF mt \in KnativeTriggerMetrics
    THEN GetKnativeTriggerMonitoredResource(tagList, gmd)
    ELSE IF mt \in KnativeImporterMetrics
    THEN GetKnativeTriggerMonitoredResource(tagList, gmd)
    ELSE getGlobalMonitoredResource(v, tagList)

getMetricTypeFuncAlwaysCustom(prefix, custom, v) ==
    Join(custom, v.MeasureName)

getMetricTypeFuncAlwaysKnative(prefix, custom, v) ==
    Join(prefix, v.MeasureName)

\* The closure returned by getMetricTypeFunc(metricTypePrefix,
\* customMetricTypePrefix), applied to a view.
getMetricTypeFunc(prefix, custom, v) ==
    LET mt == Join(prefix, v.MeasureName)
        inServing == mt \in KnativeRevisionMetrics
        inEventing == \/ mt \in KnativeBrokerMetrics
                      \/ mt \in KnativeTriggerMetrics
                      \/ mt \in KnativeImporterMetrics
    IN IF inServing \/ inEventing THEN mt ELSE Join(custom, v.MeasureName)

\* The membership test and the call of each branch of the if-chain of
\* getMonitoredResourceFunc, by the resource kind the branch tests for.
BranchHas(b, mt) ==
    CASE b = "revision" -> mt \in KnativeRevisionMetrics
      [] b = "broker" -> mt \in KnativeBrokerMetrics
      [] b = "trigger" -> mt \in KnativeTriggerMetrics
      [] b = "importer" -> mt \in KnativeImporterMetrics

BranchCall(b, tagList, gmd) ==
    CASE b = "revision" -> GetKnativeRevisionMonitoredResource(tagList, gmd)
      [] b = "broker" -> GetKnativeBrokerMonitoredResource(tagList, gmd)
      [] b = "trigger" -> GetKnativeTriggerMonitoredResource(tagList, gmd)
      [] b = "importer" -> GetKnativeTriggerMonitoredResource(tagList, gmd)

-----------------------------------------------------------------------------
(* apis.FieldError: a sequence of errors, each with a message, the field   *)
(* paths it is about and details; nil is the empty sequence.               *)

NoError == <<>>

ErrGeneric(diagnostic, paths) ==
    <<[Message |-> diagnostic, Paths |-> paths, Details |-> ""]>>

ErrInvalidValue(value, path) ==
    <<[Message |-> "invalid value: " \o value, Paths |-> <<path>>, Details |-> ""]>>

ErrMissingField(path) ==
    <<[Message |-> "missing field(s)", Paths |-> <<path>>, Details |-> ""]>>

ErrDisallowedFields(paths) ==
    <<[Message |-> "must not set the field(s)", Paths |-> paths, Details |-> ""]>>

Also(errs, more) == errs \o more

CurrentField == ""

\* ViaField: every path of every error gets the prefix; the empty prefix
\* (CurrentField) leaves the paths as they are.
ViaField(errs, prefix) ==
    IF prefix = "" THEN errs
    ELSE [i \in DOMAIN errs |->
            [errs[i] EXCEPT !.Paths =
                [j \in DOMAIN errs[i].Paths |-> prefix \o "." \o errs[i].Paths[j]]]]

-----------------------------------------------------------------------------
(* Destination and its validation                                          *)

IsAbsByHost(uri) == uri.Host # ""

\* url.URL.IsAbs: the scheme is not empty.
IsAbs(uri) == uri.Scheme # ""

deprecatedObjectReferenceNameOnly(d) ==
    IF d.DeprecatedName = "" THEN Nil
    ELSE [Kind |-> d.DeprecatedKind, Namespace |-> "", Name |-> d.DeprecatedName,
          UID |-> "", APIVersion |-> d.DeprecatedAPIVersion,
          ResourceVersion |-> "", FieldPath |-> ""]

deprecatedObjectReference(d) ==
    IF d.DeprecatedAPIVersion = "" /\ d.DeprecatedKind = "" /\ d.DeprecatedName = ""
    THEN Nil
    ELSE [Kind |-> d.DeprecatedKind, Namespace |-> "", Name |-> d.DeprecatedName,
          UID |-> "", APIVersion |-> d.DeprecatedAPIVersion,
          ResourceVersion |-> "", FieldPath |-> ""]

checkRequiredObjectReferenceFieldsSkippingKind(f) ==
    LET e1 == IF f.Name = "" THEN ErrMissingField("name") ELSE NoError
        e2 == IF f.APIVersion = "" THEN Also(e1, ErrMissingField("apiVersion")) ELSE e1
    IN e2

checkRequiredObjectReferenceFields(f) ==
    LET e1 == IF f.Name = "" THEN ErrMissingField("name") ELSE NoError
        e2 == IF f.APIVersion = "" THEN Also(e1, ErrMissingField("apiVersion")) ELSE e1
        e3 == IF f.Kind = "" THEN Also(e2, ErrMissingField("kind")) ELSE e2
    IN e3

\* The fields of corev1.ObjectReference other than Name, Kind and
\* APIVersion, in the order of the struct.
OtherObjectReferenceFields == <<"Namespace", "UID", "ResourceVersion", "FieldPath">>

checkDisallowedObjectReferenceFields(f) ==
    LET disallowedFields == SelectSeq(OtherObjectReferenceFields, LAMBDA n : f[n] # "") IN
    IF Len(disallowedFields) > 0
    THEN LET fe == ErrDisallowedFields(disallowedFields) IN
         <<[fe[1] EXCEPT !.Details = "only name, apiVersion and kind are supported fields"]>>
    ELSE NoError

IsValidObjectReference(f) ==
    Also(checkRequiredObjectReferenceFields(f), checkDisallowedObjectReferenceFields(f))

DeprecatedFieldErrorsSkippingKind(d) ==
    LET e1 == IF d.DeprecatedAPIVersion # ""
              THEN ErrInvalidValue("apiVersion is not allowed here, it's a deprecated value",
                                   "apiVersion")
              ELSE NoError
        e3 == IF d.DeprecatedName # ""
              THEN Also(e1, ErrInvalidValue("name is not allowed here, it's a deprecated value",
                                            "name"))
              ELSE e1
    IN e3

DeprecatedFieldErrors(d) ==
    LET e1 == IF d.DeprecatedAPIVersion # ""
              THEN ErrInvalidValue("apiVersion is not allowed here, it's a deprecated value",
                                   "apiVersion")
              ELSE NoError
        e2 == IF d.DeprecatedKind # ""
              THEN Also(e1, ErrInvalidValue("kind is not allowed here, it's a deprecated value",
                                            "kind"))
              ELSE e1
        e3 == IF d.DeprecatedName # ""
              THEN Also(e2, ErrInvalidValue("name is not allowed here, it's a deprecated value",
                                            "name"))
              ELSE e2
    IN e3

ValidateDestinationWithoutPresenceCheck(d, allowDeprecated) ==
    LET errs == IF allowDeprecated THEN NoError ELSE DeprecatedFieldErrors(d)
        deprecated == deprecatedObjectReference(d)
        ref == IF d.Ref # Nil THEN d.Ref ELSE deprecated
    IN
    IF errs # NoError THEN errs
    ELSE IF d.Ref # Nil /\ deprecated # Nil
    THEN ErrGeneric("ref and [apiVersion, kind, name] can't be both present",
                    <<"[apiVersion, kind, name]", "ref">>)
    ELSE IF ref # Nil /\ d.URI # Nil /\ IsAbs(d.URI)
    THEN ErrGeneric("absolute URI is not allowed when Ref or [apiVersion, kind, name] is present",
                    <<"[apiVersion, kind, name]", "ref", "uri">>)
    ELSE IF ref = Nil /\ d.URI # Nil /\ (~IsAbs(d.URI) \/ d.URI.Host = "")
    THEN ErrInvalidValue("relative URI is not allowed when Ref and [apiVersion, kind, name] is absent",
                         "uri")
    ELSE IF ref # Nil /\ d.URI = Nil
    THEN IF d.Ref # Nil
         THEN ViaField(IsValidObjectReference(ref), "ref")
         ELSE IsValidObjectReference(ref)
    ELSE NoError

ValidateDestination(d, allowDeprecated) ==
    LET errs == IF allowDeprecated THEN NoError ELSE DeprecatedFieldErrors(d)
        deprecated == deprecatedObjectReference(d)
        ref == IF d.Ref # Nil THEN d.Ref ELSE deprecated
    IN
    IF errs # NoError THEN errs
    ELSE IF d.Ref # Nil /\ deprecated # Nil
    THEN ErrGeneric("ref and [apiVersion, kind, name] can't be both present",
                    <<"[apiVersion, kind, name]", "ref">>)
    ELSE IF ref = Nil /\ d.URI = Nil
    THEN ErrGeneric("expected at least one, got none",
                    <<"[apiVersion, kind, name]", "ref", "uri">>)
    ELSE IF ref # Nil /\ d.URI # Nil /\ IsAbs(d.URI)
    THEN ErrGeneric("absolute URI is not allowed when Ref or [apiVersion, kind, name] is present",
                    <<"[apiVersion, kind, name]", "ref", "uri">>)
    ELSE IF ref = Nil /\ d.URI # Nil /\ (~IsAbs(d.URI) \/ d.URI.Host = "")
    THEN ErrInvalidValue("relative URI is not allowed when Ref and [apiVersion, kind, name] is absent",
                         "uri")
    ELSE IF ref # Nil /\ d.URI = Nil
    THEN IF d.Ref # Nil
         THEN ViaField(IsValidObjectReference(ref), "ref")
         ELSE IsValidObjectReference(ref)
    ELSE NoError

\* (dest *Destination).Validate
DestinationValidate(d) ==
    IF d = Nil THEN NoError
    ELSE ViaField(ValidateDestination(d, TRUE), CurrentField)

\* (dest *Destination).ValidateDisallowDeprecated
DestinationValidateDisallowDeprecated(d) ==
    IF d = Nil THEN NoError
    ELSE ViaField(ValidateDestination(d, FALSE), CurrentField)

GetRefPreferringDeprecated(d) ==
    [ref |-> IF d = Nil THEN Nil
             ELSE IF deprecatedObjectReference(d) # Nil THEN deprecatedObjectReference(d)
             ELSE d.Ref,
     dest |-> d]

\* (dest *Destination).GetRef: the reference returned, and the Destination
\* as the call leaves it.
GetRef(d) ==
    [ref |-> IF d = Nil THEN Nil
             ELSE IF d.Ref # Nil THEN d.Ref
             ELSE IF deprecatedObjectReference(d) # Nil THEN deprecatedObjectReference(d)
             ELSE Nil,
     dest |-> d]

-----------------------------------------------------------------------------
(* apis/duck/v1/source_types.go: ScalerSpec                                *)

ScalerClassKeda == "keda"
ScalerClassKsvc == "ksvc"
defaultScalerClass == ScalerClassKeda
defaultMinScale == 0
defaultMaxScale == 1
MaxInt32 == 2147483647

\* utilpointer.Int32Ptr: a pointer to the value.
Int32Ptr(v) == [val |-> v]

Digits == <<"0", "1", "2", "3", "4", "5", "6", "7", "8", "9">>

RECURSIVE FormatNat(_)
FormatNat(n) ==
    IF n < 10 THEN Digits[n + 1] ELSE FormatNat(n \div 10) \o Digits[(n % 10) + 1]

\* fmt's %d and %v of an integer.
FormatInt(n) == IF n < 0 THEN "-" \o FormatNat(0 - n) ELSE FormatNat(n)

ErrOutOfBoundsValue(value, lower, upper, path) ==
    <<[Message |-> "expected " \o FormatInt(lower) \o " <= " \o FormatInt(value)
                       \o " <= " \o FormatInt(upper),
       Paths |-> <<path>>, Details |-> ""]>>

ScalerSpecValidateMaxScaleFromZero(ss) ==
    IF ss = Nil THEN NoError
    ELSE
    LET e1 == IF ss.Class = "" THEN ErrMissingField("class") ELSE NoError
        e2 == IF ss.MinScale = Nil THEN Also(e1, ErrMissingField("minScale"))
              ELSE IF ss.MinScale.val < 0
              THEN Also(e1, ErrOutOfBoundsValue(ss.MinScale.val, 0, MaxInt32, "minScale"))
              ELSE e1
        e3 == IF ss.MaxScale = Nil THEN Also(e2, ErrMissingField("maxScale"))
              ELSE IF ss.MaxScale.val < 0
              THEN Also(e2, ErrOutOfBoundsValue(ss.MaxScale.val, 1, MaxInt32, "maxScale"))
              ELSE e2
        e4 == IF ss.MinScale # Nil /\ ss.MaxScale # Nil /\ ss.MaxScale.val < ss.MinScale.val
              THEN Also(e3, <<[Message |-> "maxScale=" \o FormatInt(ss.MaxScale.val)
                                              \o " is less than minScale="
                                              \o FormatInt(ss.MinScale.val),
                               Paths |-> <<"maxScale", "minScale">>,
                               Details |-> ""]>>)
              ELSE e3
    IN e4

\* (ss *ScalerSpec).Validate
ScalerSpecValidate(ss) ==
    IF ss = Nil THEN NoError
    ELSE
    LET e1 == IF ss.Class = "" THEN ErrMissingField("class") ELSE NoError
        e2 == IF ss.MinScale = Nil THEN Also(e1, ErrMissingField("minScale"))
              ELSE IF ss.MinScale.val < 0
              THEN Also(e1, ErrOutOfBoundsValue(ss.MinScale.val, 0, MaxInt32, "minScale"))
              ELSE e1
        e3 == IF ss.MaxScale = Nil THEN Also(e2, ErrMissingField("maxScale"))
              ELSE IF ss.MaxScale.val < 1
              THEN Also(e2, ErrOutOfBoundsValue(ss.MaxScale.val, 1, MaxInt32, "maxScale"))
              ELSE e2
        e4 == IF ss.MinScale # Nil /\ ss.MaxScale # Nil /\ ss.MaxScale.val < ss.MinScale.val
              THEN Also(e3, <<[Message |-> "maxScale=" \o FormatInt(ss.MaxScale.val)
                                              \o " is less than minScale="
                                              \o FormatInt(ss.MinScale.val),
                               Paths |-> <<"maxScale", "minScale">>,
                               Details |-> ""]>>)
              ELSE e3
    IN e4

SetDefaultOverwritingClass(ss) ==
    IF ss = Nil THEN Nil
    ELSE [ss EXCEPT
            !.Class = defaultScalerClass,
            !.MinScale = IF ss.MinScale = Nil THEN Int32Ptr(defaultMinScale) ELSE ss.MinScale,
            !.MaxScale = IF ss.MaxScale = Nil THEN Int32Ptr(defaultMaxScale) ELSE ss.MaxScale]

\* (ss *ScalerSpec).SetDefault: the ScalerSpec as the call leaves it.
SetDefault(ss) ==
    IF ss = Nil THEN Nil
    ELSE [ss EXCEPT
            !.Class = IF ss.Class = "" THEN defaultScalerClass ELSE ss.Class,
            !.MinScale = IF ss.MinScale = Nil THEN Int32Ptr(defaultMinScale) ELSE ss.MinScale,
            !.MaxScale = IF ss.MaxScale = Nil THEN Int32Ptr(defaultMaxScale) ELSE ss.MaxScale]

-----------------------------------------------------------------------------
(* Inputs                                                                  *)

Domains == {servingDomain, eventingDomain, <<"unsupported">>}
Components == {<<"activator">>, <<"autoscaler">>, <<"broker">>, <<"trigger">>,
               <<"importer">>, <<"unsupported">>}
MeasureNames == {<<"request_count">>, <<"desired_pods">>, <<"event_count">>,
                 <<"event_process_latencies">>, <<"event_dispatch_latencies">>,
                 <<"unsupported">>}
Views == [MeasureName : MeasureNames]

MetricCase(d, c, n) == [domain |-> d, component |-> c, view |-> [MeasureName |-> <<n>>]]

\* The metrics the monitored-resource function is called for: one case for
\* every metric type of the four metric sets, and the unsupported domain,
\* component and metric-name cases of the exporter's tests.
MetricCases ==
    {MetricCase(servingDomain, <<"activator">>, "request_count"),
     MetricCase(servingDomain, <<"autoscaler">>, "desired_pods"),
     MetricCase(eventingDomain, <<"broker">>, "event_count"),
     MetricCase(eventingDomain, <<"trigger">>, "event_count"),
     MetricCase(eventingDomain, <<"trigger">>, "event_process_latencies"),
     MetricCase(eventingDomain, <<"trigger">>, "event_dispatch_latencies"),
     MetricCase(eventingDomain, <<"importer">>, "event_count"),
     MetricCase(<<"unsupported">>, <<"activator">>, "request_count"),
     MetricCase(servingDomain, <<"unsupported">>, "request_count"),
     MetricCase(servingDomain, <<"activator">>, "unsupported"),
     MetricCase(eventingDomain, <<"unsupported">>, "event_count"),
     MetricCase(eventingDomain, <<"broker">>, "unsupported")}

TagKeys == {LabelProject, LabelNamespaceName, LabelServiceName, LabelRouteName,
            LabelConfigurationName, LabelRevisionName, LabelTriggerName,
            LabelBrokerName, LabelTriggerTypeFilterAttribute,
            LabelTriggerSourceFilterAttribute, LabelImporterName, LabelImporterKind}
TagValues == {"v1", "v2"}
Tags == [Key : TagKeys, Value : TagValues]
TagLists == UNION {[1..n -> Tags] : n \in 0..MaxTags}

testGcpMetadata ==
    [Project |-> "test-project", Location |-> "test-location", Cluster |-> "test-cluster"]
GcpMetadatas ==
    {testGcpMetadata,
     [Project |-> "other-project", Location |-> "other-location", Cluster |-> "other-cluster"]}

Strs == {"", "x"}
ObjectReferences ==
    [Kind : Strs, Namespace : Strs, Name : Strs, UID : Strs, APIVersion : Strs,
     ResourceVersion : Strs, FieldPath : Strs]
URLs == [Scheme : {"", "http"}, Host : {"", "example.com"}]
Destinations ==
    [Ref : {Nil} \cup ObjectReferences,
     DeprecatedAPIVersion : Strs, DeprecatedKind : Strs, DeprecatedName : Strs,
     URI : {Nil} \cup URLs]

ScaleValues == (0 - MaxScaleInput)..MaxScaleInput
ScalePointers == {Nil} \cup {Int32Ptr(v) : v \in ScaleValues}
ScalerSpecs ==
    [Class : {"", ScalerClassKeda, ScalerClassKsvc},
     MinScale : ScalePointers,
     MaxScale : ScalePointers,
     Options : {Nil, [pollingInterval |-> "30"]}]

-----------------------------------------------------------------------------
(* State: the operation in progress ("idle" between calls), its arguments  *)
(* and what it returned.                                                   *)

VARIABLES op, metricTypePrefix, customPrefix, view, tags, gm,
          newTags, resource, metricType,
          dest, allowDeprecatedFields, fieldError,
          destBefore, gotRef, scaler, scalerBefore

vars == <<op, metricTypePrefix, customPrefix, view, tags, gm,
          newTags, resource, metricType,
          dest, allowDeprecatedFields, fieldError,
          destBefore, gotRef, scaler, scalerBefore>>

NoMetricsCall ==
    /\ metricTypePrefix' = <<>>
    /\ customPrefix' = <<>>
    /\ view' = Nil
    /\ tags' = <<>>
    /\ gm' = Nil
    /\ newTags' = <<>>
    /\ resource' = Nil
    /\ metricType' = <<>>

NoDestinationCall ==
    /\ dest' = Nil
    /\ allowDeprecatedFields' = FALSE
    /\ fieldError' = NoError
    /\ destBefore' = Nil
    /\ gotRef' = Nil
    /\ scaler' = Nil
    /\ scalerBefore' = Nil

Init ==
    /\ op = "idle"
    /\ metricTypePrefix = <<>>
    /\ customPrefix = <<>>
    /\ view = Nil
    /\ tags = <<>>
    /\ gm = Nil
    /\ newTags = <<>>
    /\ resource = Nil
    /\ metricType = <<>>
    /\ dest = Nil
    /\ allowDeprecatedFields = FALSE
    /\ fieldError = NoError
    /\ destBefore = Nil
    /\ gotRef = Nil
    /\ scaler = Nil
    /\ scalerBefore = Nil

\* mrf := getMonitoredResourceFunc(path.Join(domain, component), gm);
\* newTags, monitoredResource := mrf(view, tags)
CallMonitoredResourceFunc ==
    /\ op = "idle"
    /\ \E m \in MetricCases, tl \in TagLists, g \in GcpMetadatas :
        LET prefix == Join(m.domain, m.component)
            r == getMonitoredResourceFunc(prefix, g, m.view, tl)
        IN
        /\ op' = "getMonitoredResource"
        /\ metricTypePrefix' = prefix
        /\ customPrefix' = <<>>
        /\ view' = m.view
        /\ tags' = tl
        /\ gm' = g
        /\ newTags' = r.newTags
        /\ resource' = r.mr
        /\ metricType' = <<>>
        /\ NoDestinationCall

\* mtf := getMetricTypeFunc(path.Join(domain, component),
\*                          path.Join(customMetricTypePrefix, component));
\* metricType := mtf(view)
CallMetricTypeFunc ==
    /\ op = "idle"
    /\ \E d \in Domains, c \in Components, cc \in Components, v \in Views :
        /\ op' = "getMetricType"
        /\ metricTypePrefix' = Join(d, c)
        /\ customPrefix' = Join(customMetricTypePrefix, cc)
        /\ view' = v
        /\ tags' = <<>>
        /\ gm' = Nil
        /\ newTags' = <<>>
        /\ resource' = Nil
        /\ metricType' = getMetricTypeFunc(Join(d, c), Join(customMetricTypePrefix, cc), v)
        /\ NoDestinationCall

CallValidateDestination ==
    /\ op = "idle"
    /\ \E d \in Destinations, allow \in BOOLEAN :
        /\ op' = "ValidateDestination"
        /\ dest' = d
        /\ allowDeprecatedFields' = allow
        /\ fieldError' = ValidateDestination(d, allow)
        /\ destBefore' = d
        /\ gotRef' = Nil
        /\ scaler' = Nil
        /\ scalerBefore' = Nil
        /\ NoMetricsCall

\* dest.Validate(ctx), on a nil or non-nil *Destination
CallValidate ==
    /\ op = "idle"
    /\ \E d \in {Nil} \cup Destinations :
        /\ op' = "Validate"
        /\ dest' = d
        /\ allowDeprecatedFields' = TRUE
        /\ fieldError' = DestinationValidate(d)
        /\ destBefore' = d
        /\ gotRef' = Nil
        /\ scaler' = Nil
        /\ scalerBefore' = Nil
        /\ NoMetricsCall

\* dest.ValidateDisallowDeprecated(ctx), on a nil or non-nil *Destination
CallValidateDisallowDeprecated ==
    /\ op = "idle"
    /\ \E d \in {Nil} \cup Destinations :
        /\ op' = "ValidateDisallowDeprecated"
        /\ dest' = d
        /\ allowDeprecatedFields' = FALSE
        /\ fieldError' = DestinationValidateDisallowDeprecated(d)
        /\ destBefore' = d
        /\ gotRef' = Nil
        /\ scaler' = Nil
        /\ scalerBefore' = Nil
        /\ NoMetricsCall

\* ref := dest.GetRef(), on a nil or non-nil *Destination
CallGetRef ==
    /\ op = "idle"
    /\ \E d \in {Nil} \cup Destinations :
        LET r == GetRef(d) IN
        /\ op' = "GetRef"
        /\ dest' = r.dest
        /\ allowDeprecatedFields' = FALSE
        /\ fieldError' = NoError
        /\ destBefore' = d
        /\ gotRef' = r.ref
        /\ scaler' = Nil
        /\ scalerBefore' = Nil
        /\ NoMetricsCall

\* ss.Validate(ctx), on a nil or non-nil *ScalerSpec
CallScalerSpecValidate ==
    /\ op = "idle"
    /\ \E ss \in {Nil} \cup ScalerSpecs :
        /\ op' = "ScalerSpec.Validate"
        /\ scalerBefore' = ss
        /\ scaler' = ss
        /\ fieldError' = ScalerSpecValidate(ss)
        /\ dest' = Nil
        /\ allowDeprecatedFields' = FALSE
        /\ destBefore' = Nil
        /\ gotRef' = Nil
        /\ NoMetricsCall

\* ss.SetDefault(ctx), on a nil or non-nil *ScalerSpec
CallSetDefault ==
    /\ op = "idle"
    /\ \E ss \in {Nil} \cup ScalerSpecs :
        /\ op' = "ScalerSpec.SetDefault"
        /\ scalerBefore' = ss
        /\ scaler' = SetDefault(ss)
        /\ fieldError' = NoError
        /\ dest' = Nil
        /\ allowDeprecatedFields' = FALSE
        /\ destBefore' = Nil
        /\ gotRef' = Nil
        /\ NoMetricsCall

\* The call has returned and its results are dropped; the next call starts
\* from the same package state (none of the functions keeps any).
Return ==
    /\ op # "idle"
    /\ op' = "idle"
    /\ NoMetricsCall
    /\ NoDestinationCall

Next ==
    \/ Return
    \/ CallMonitoredResourceFunc
    \/ CallMetricTypeFunc
    \/ CallValidateDestination
    \/ CallValidate
    \/ CallValidateDisallowDeprecated
    \/ CallGetRef
    \/ CallScalerSpecValidate
    \/ CallSetDefault

Spec == Init /\ [][Next]_vars

-----------------------------------------------------------------------------
(* Properties                                                              *)

\* The call of the monitored-resource function has returned.
ResourceReturned == op = "getMonitoredResource"

\* The metric type of the view of the call in progress.
CalledMetricType == Join(metricTypePrefix, view.MeasureName)

\* The metric sets of the four resource kinds of the dispatch table.
SupportedMetrics ==
    KnativeRevisionMetrics \cup KnativeBrokerMetrics \cup
    KnativeTriggerMetrics \cup KnativeImporterMetrics

MetadataLabels == {LabelProject, LabelLocation, LabelClusterName}

\* The label lists of the rows of the dispatch table.
RevisionRowLabels ==
    MetadataLabels \cup {LabelNamespaceName, LabelServiceName,
                         LabelConfigurationName, LabelRevisionName}
BrokerRowLabels == MetadataLabels \cup {LabelNamespaceName, LabelBrokerName}
TriggerRowLabels ==
    MetadataLabels \cup {LabelNamespaceName, LabelTriggerName, LabelBrokerName,
                         LabelTriggerTypeFilterAttribute,
                         LabelTriggerSourceFilterAttribute}
ImporterRowLabels ==
    MetadataLabels \cup {LabelNamespaceName, LabelImporterName, LabelImporterKind}

HasTag(tagList, key) == \E i \in DOMAIN tagList : tagList[i].Key = key

\* C1: for every metric type of the knative-importer metric set, the
\* monitored resource returned has resource type knative_importer and its
\* labels are exactly project, location, cluster, namespace, importer name
\* and importer kind.
C1_ImporterResource ==
    (ResourceReturned /\ CalledMetricType \in KnativeImporterMetrics) =>
        /\ MonitoredResource(resource).resType = "knative_importer"
        /\ DOMAIN MonitoredResource(resource).labels = ImporterRowLabels

\* C2: for every metric type of the revision, broker or trigger metric set,
\* the monitored resource returned has the resource type of its row of the
\* dispatch table and exactly the labels of that row: 7 for a revision, 5
\* for a broker, 8 for a trigger.
C2_RowResourceTypeAndLabels ==
    ResourceReturned =>
        LET mt == CalledMetricType
            res == MonitoredResource(resource)
        IN /\ mt \in KnativeRevisionMetrics =>
                /\ res.resType = "knative_revision"
                /\ DOMAIN res.labels = RevisionRowLabels
                /\ Cardinality(DOMAIN res.labels) = 7
           /\ mt \in KnativeBrokerMetrics =>
                /\ res.resType = "knative_broker"
                /\ DOMAIN res.labels = BrokerRowLabels
                /\ Cardinality(DOMAIN res.labels) = 5
           /\ mt \in KnativeTriggerMetrics =>
                /\ res.resType = "knative_trigger"
                /\ DOMAIN res.labels = TriggerRowLabels
                /\ Cardinality(DOMAIN res.labels) = 8

\* A trigger metric was dispatched, with a type-filter tag among its tags.
C2_Witness ==
    /\ ResourceReturned
    /\ CalledMetricType \in KnativeTriggerMetrics
    /\ HasTag(tags, LabelTriggerTypeFilterAttribute)
    /\ MonitoredResource(resource).resType = "knative_trigger"

\* C3: for every supported metric and every tag list, the project, location
\* and cluster labels are the GcpMetadata values whatever the tags are, and
\* every other label is the value of an input tag with that key if there is
\* one and "unknown" if there is none.
C3_LabelValues ==
    (ResourceReturned /\ CalledMetricType \in SupportedMetrics) =>
        LET labels == MonitoredResource(resource).labels IN
        /\ labels[LabelProject] = gm.Project
        /\ labels[LabelLocation] = gm.Location
        /\ labels[LabelClusterName] = gm.Cluster
        /\ \A k \in DOMAIN labels \ MetadataLabels :
              IF HasTag(tags, k)
              THEN \E i \in DOMAIN tags : tags[i].Key = k /\ labels[k] = tags[i].Value
              ELSE labels[k] = ValueUnknown

\* A broker metric whose tags carry a project tag and a broker-name tag and
\* no namespace tag: the project label is the metadata's, the broker label
\* the tag's, the namespace label "unknown".
C3_Witness ==
    /\ ResourceReturned
    /\ CalledMetricType \in KnativeBrokerMetrics
    /\ HasTag(tags, LabelProject)
    /\ HasTag(tags, LabelBrokerName)
    /\ gm = testGcpMetadata
    /\ MonitoredResource(resource).labels[LabelProject] = testGcpMetadata.Project
    /\ MonitoredResource(resource).labels[LabelBrokerName] \in TagValues
    /\ MonitoredResource(resource).labels[LabelNamespaceName] = ValueUnknown

\* C4: for every metric type in none of the four metric sets the resource
\* returned has resource type global and no labels, and the tags returned
\* are the input tags, all of them and in their order.
C4_GlobalDefault ==
    (ResourceReturned /\ CalledMetricType \notin SupportedMetrics) =>
        /\ MonitoredResource(resource).resType = "global"
        /\ DOMAIN MonitoredResource(resource).labels = {}
        /\ newTags = tags

\* An unsupported metric was dispatched with two tags, one of them a
\* namespace tag.
C4_Witness ==
    /\ ResourceReturned
    /\ CalledMetricType \notin SupportedMetrics
    /\ Len(tags) = 2
    /\ HasTag(newTags, LabelNamespaceName)
    /\ MonitoredResource(resource).resType = "global"

\* C5: for every supported metric kind and every tag list, the tags
\* returned are exactly the input tags whose key is not a label extracted
\* into the monitored resource, with their values and in their order; the
\* tag of every extracted label is removed, the trigger's type-filter and
\* source-filter tags included.
C5_ExtractedTagsRemoved ==
    (ResourceReturned /\ CalledMetricType \in SupportedMetrics) =>
        newTags = SelectSeq(tags,
                            LAMBDA t : t.Key \notin DOMAIN MonitoredResource(resource).labels)

\* C6: for a broker metric whose tags include a broker-name tag, the tags
\* returned still contain that broker-name tag with its value, the resource
\* type is knative_broker and the namespace label is the namespace tag's
\* value.
C6_BrokerTagKept ==
    (/\ ResourceReturned
     /\ CalledMetricType \in KnativeBrokerMetrics
     /\ HasTag(tags, LabelBrokerName)) =>
        /\ \A i \in DOMAIN tags :
              tags[i].Key = LabelBrokerName =>
                  \E j \in DOMAIN newTags : newTags[j] = tags[i]
        /\ MonitoredResource(resource).resType = "knative_broker"
        /\ HasTag(tags, LabelNamespaceName) =>
              \E i \in DOMAIN tags :
                  /\ tags[i].Key = LabelNamespaceName
                  /\ MonitoredResource(resource).labels[LabelNamespaceName] = tags[i].Value

\* C7: for every view whose metric type is in one of the four metric sets,
\* the metric-type function returns that metric type, the prefix followed
\* by the measure name, whatever the custom prefix is.
C7_KnativeDomainMetricType ==
    (op = "getMetricType" /\ CalledMetricType \in SupportedMetrics) =>
        /\ metricType = metricTypePrefix \o view.MeasureName
        /\ metricType \in SupportedMetrics

\* The metric type of an importer metric was asked for.
C7_Witness ==
    /\ op = "getMetricType"
    /\ CalledMetricType \in KnativeImporterMetrics
    /\ metricType \in KnativeImporterMetrics

\* C8: for every view whose metric type is in none of the four metric sets,
\* the metric-type function returns the custom prefix followed by the
\* measure name, custom.googleapis.com/knative.dev/<component>/<measure>,
\* and never the Knative-domain metric type.
C8_CustomDomainMetricType ==
    (op = "getMetricType" /\ CalledMetricType \notin SupportedMetrics) =>
        /\ metricType = customPrefix \o view.MeasureName
        /\ SubSeq(metricType, 1, 2) = customMetricTypePrefix
        /\ Len(metricType) = 4
        /\ metricType # CalledMetricType
        /\ metricType \notin SupportedMetrics

\* The metric type of a broker view with an unsupported measure name was
\* asked for.
C8_Witness ==
    /\ op = "getMetricType"
    /\ metricTypePrefix = <<"knative.dev", "eventing", "broker">>
    /\ view.MeasureName = <<"unsupported">>
    /\ metricType = <<"custom.googleapis.com", "knative.dev", "broker", "unsupported">>

\* The kinds the if-chain of getMonitoredResourceFunc tests for, in the
\* order of the code, and every order they could be tested in.
Branches == <<"revision", "broker", "trigger", "importer">>
BranchOrders ==
    {o \in [1..4 -> {Branches[i] : i \in 1..4}] :
        \A i, j \in 1..4 : i # j => o[i] # o[j]}

RECURSIVE FirstMatch(_, _)
\* The branch the if-chain takes with its tests made in the given order:
\* the first kind whose metric set has the metric type, "global" if none.
FirstMatch(order, mt) ==
    IF order = <<>> THEN "global"
    ELSE IF BranchHas(Head(order), mt) THEN Head(order)
    ELSE FirstMatch(Tail(order), mt)

\* Every metric type a domain, a component and a measure name of the inputs
\* make up.
InputMetricTypes ==
    {Join(Join(d, c), n) : d \in Domains, c \in Components, n \in MeasureNames}

\* The metric types for which the tests made in every order take the same
\* branch.
OrderIndependentMetricTypes ==
    {mt \in InputMetricTypes :
        \A o \in BranchOrders : FirstMatch(o, mt) = FirstMatch(Branches, mt)}

\* The pairs of kinds whose metric sets share a metric type.
OverlappingBranches ==
    {p \in {<<i, j>> : i, j \in 1..4} :
        /\ p[1] # p[2]
        /\ \E mt \in SupportedMetrics :
              BranchHas(Branches[p[1]], mt) /\ BranchHas(Branches[p[2]], mt)}

\* C9: the dispatch is total and does not depend on the order of its tests:
\* the four metric sets are pairwise disjoint, so a metric type matches at
\* most one branch, the tests made in any order take the branch whose
\* result the code returns, and every metric type gives a result.
C9_DispatchOrderIndependent ==
    /\ OverlappingBranches = {}
    /\ OrderIndependentMetricTypes = InputMetricTypes
    /\ ResourceReturned =>
        LET mt == CalledMetricType
            b == FirstMatch(Branches, mt)
        IN
        /\ mt \in OrderIndependentMetricTypes
        /\ Cardinality({i \in 1..4 : BranchHas(Branches[i], mt)}) <= 1
        /\ [newTags |-> newTags, mr |-> resource] =
              IF b = "global" THEN getGlobalMonitoredResource(view, tags)
              ELSE BranchCall(b, tags, gm)
        /\ resource # Nil
        /\ MonitoredResource(resource).resType \in
              {"knative_revision", "knative_broker", "knative_trigger",
               "knative_importer", "global"}

\* A trigger metric was dispatched.
C9_Witness ==
    /\ ResourceReturned
    /\ CalledMetricType = <<"knative.dev", "eventing", "trigger", "event_count">>
    /\ MonitoredResource(resource).resType = "knative_trigger"
    /\ Len(tags) = 2

\* C10: with the deprecated fields allowed, ValidateDestination returns an
\* error for every Destination with Ref set and one of the deprecated
\* apiVersion, kind and name not empty, whatever the URI is.
C10_RefExcludesDeprecated ==
    (/\ op = "ValidateDestination"
     /\ allowDeprecatedFields
     /\ dest.Ref # Nil
     /\ \/ dest.DeprecatedAPIVersion # ""
        \/ dest.DeprecatedKind # ""
        \/ dest.DeprecatedName # "") =>
        /\ fieldError # NoError
        /\ fieldError[1].Paths = <<"[apiVersion, kind, name]", "ref">>

\* A Destination with a complete Ref, a deprecated kind and an absolute URI
\* was validated and rejected.
C10_Witness ==
    /\ op = "ValidateDestination"
    /\ allowDeprecatedFields
    /\ dest.Ref # Nil
    /\ dest.Ref.Name # "" /\ dest.Ref.Kind # "" /\ dest.Ref.APIVersion # ""
    /\ dest.DeprecatedKind # ""
    /\ dest.DeprecatedName = ""
    /\ dest.URI # Nil
    /\ fieldError # NoError

\* A validation of a non-nil Destination has returned.
Validated ==
    /\ op \in {"ValidateDestination", "Validate", "ValidateDisallowDeprecated"}
    /\ dest # Nil

HasDeprecatedField(d) ==
    d.DeprecatedAPIVersion # "" \/ d.DeprecatedKind # "" \/ d.DeprecatedName # ""

\* C11: ValidateDestination returns an error for every Destination with Ref
\* nil, the three deprecated fields empty and URI nil; Destination.Validate
\* on a nil receiver returns no error.
C11_NothingPresentRejected ==
    /\ (/\ Validated
        /\ dest.Ref = Nil
        /\ ~HasDeprecatedField(dest)
        /\ dest.URI = Nil) =>
           /\ fieldError # NoError
           /\ Len(fieldError) = 1
           /\ fieldError[1].Message = "expected at least one, got none"
           /\ fieldError[1].Paths = <<"[apiVersion, kind, name]", "ref", "uri">>
    /\ (op = "Validate" /\ dest = Nil) => fieldError = NoError

\* Validate was called on a Destination with nothing set and returned an
\* error.
C11_Witness ==
    /\ op = "Validate"
    /\ dest # Nil
    /\ dest.Ref = Nil
    /\ ~HasDeprecatedField(dest)
    /\ dest.URI = Nil
    /\ fieldError # NoError

\* The URI has a scheme and a host.
AbsoluteWithHost(uri) == uri.Scheme # "" /\ uri.Host # ""

\* The Destination has an object reference: Ref, or a deprecated field.
HasReference(d) == d.Ref # Nil \/ HasDeprecatedField(d)

\* C12: for every Destination with a URI that ValidateDestination accepts,
\* the URI is absolute (scheme and host not empty) exactly when there is no
\* object reference; an absolute URI with a reference is rejected, and a
\* relative or host-less URI without a reference is rejected.
C12_UriAbsoluteIffNoReference ==
    (Validated /\ dest.URI # Nil) =>
        /\ fieldError = NoError =>
              (AbsoluteWithHost(dest.URI) <=> ~HasReference(dest))
        /\ (AbsoluteWithHost(dest.URI) /\ HasReference(dest)) => fieldError # NoError
        /\ (~AbsoluteWithHost(dest.URI) /\ ~HasReference(dest)) => fieldError # NoError

\* A Destination with a Ref and a relative URI was validated and accepted.
C12_Witness ==
    /\ op = "ValidateDestination"
    /\ dest.Ref # Nil
    /\ dest.URI # Nil
    /\ dest.URI.Scheme = ""
    /\ dest.URI.Host # ""
    /\ fieldError = NoError

\* The deprecated fields of the Destination that are not empty, in the
\* order apiVersion, kind, name, by their JSON names.
SetDeprecatedFields(d) ==
    SelectSeq(<<"apiVersion", "kind", "name">>,
              LAMBDA n : \/ n = "apiVersion" /\ d.DeprecatedAPIVersion # ""
                         \/ n = "kind" /\ d.DeprecatedKind # ""
                         \/ n = "name" /\ d.DeprecatedName # "")

DeprecatedValueMessage(n) ==
    "invalid value: " \o n \o " is not allowed here, it's a deprecated value"

\* C13: with the deprecated fields disallowed (ValidateDestination with
\* allowDeprecatedFields false, ValidateDisallowDeprecated), a Destination
\* with a deprecated field set gets one invalid-value error for each
\* deprecated field set and nothing else, whatever its other fields are;
\* with the deprecated fields allowed no such error is reported, and a
\* Destination with only the three deprecated fields set is accepted.
C13_DeprecatedFieldsDisallowed ==
    Validated =>
        LET set == SetDeprecatedFields(dest) IN
        /\ (~allowDeprecatedFields /\ set # <<>>) =>
              /\ Len(fieldError) = Len(set)
              /\ \A i \in DOMAIN set :
                    /\ fieldError[i].Message = DeprecatedValueMessage(set[i])
                    /\ fieldError[i].Paths = <<set[i]>>
        /\ allowDeprecatedFields =>
              /\ \A i \in DOMAIN fieldError :
                    fieldError[i].Message \notin
                        {DeprecatedValueMessage(n) : n \in {"apiVersion", "kind", "name"}}
              /\ (Len(set) = 3 /\ dest.Ref = Nil /\ dest.URI = Nil) => fieldError = NoError

\* ValidateDisallowDeprecated was called on a Destination with a Ref, a
\* deprecated kind and a deprecated name, and reported the two fields.
C13_Witness ==
    /\ op = "ValidateDisallowDeprecated"
    /\ dest # Nil
    /\ dest.Ref # Nil
    /\ SetDeprecatedFields(dest) = <<"kind", "name">>
    /\ Len(fieldError) = 2

\* The object reference of the Destination: Ref if set, else the one the
\* deprecated fields make up.
ReferenceOf(d) ==
    IF d.Ref # Nil THEN d.Ref
    ELSE [Kind |-> d.DeprecatedKind, Namespace |-> "", Name |-> d.DeprecatedName,
          UID |-> "", APIVersion |-> d.DeprecatedAPIVersion,
          ResourceVersion |-> "", FieldPath |-> ""]

RequiredFieldsSet(f) == f.Name # "" /\ f.APIVersion # "" /\ f.Kind # ""

OtherFieldsZero(f) ==
    f.Namespace = "" /\ f.UID = "" /\ f.ResourceVersion = "" /\ f.FieldPath = ""

\* C14: for a Destination with an object reference and no URI,
\* ValidateDestination returns no error if and only if the reference's
\* name, apiVersion and kind are not empty and its other fields are zero.
C14_ReferenceValidIffNoError ==
    (Validated /\ dest.URI = Nil /\ HasReference(dest)) =>
        (fieldError = NoError <=>
            RequiredFieldsSet(ReferenceOf(dest)) /\ OtherFieldsZero(ReferenceOf(dest)))

\* The required fields of a reference that are empty, in the order the
\* code checks them, by their JSON names.
MissingRequiredFields(f) ==
    SelectSeq(<<"name", "apiVersion", "kind">>,
              LAMBDA n : \/ n = "name" /\ f.Name = ""
                         \/ n = "apiVersion" /\ f.APIVersion = ""
                         \/ n = "kind" /\ f.Kind = "")

\* The other fields of a reference that are not zero, in struct order.
SetOtherFields(f) ==
    SelectSeq(<<"Namespace", "UID", "ResourceVersion", "FieldPath">>,
              LAMBDA n : \/ n = "Namespace" /\ f.Namespace # ""
                         \/ n = "UID" /\ f.UID # ""
                         \/ n = "ResourceVersion" /\ f.ResourceVersion # ""
                         \/ n = "FieldPath" /\ f.FieldPath # "")

\* C14, amended: for a Destination with no URI whose object reference is
\* given by Ref alone, or by the deprecated fields alone with the
\* deprecated fields allowed, ValidateDestination returns no error if and
\* only if the reference's name, apiVersion and kind are not empty and its
\* other fields are zero; the missing required fields and the disallowed
\* other fields are reported together, with paths under ref when the
\* reference is Ref and bare when it is made of the deprecated fields.
C14_SingleReferenceValidIffNoError ==
    (/\ Validated
     /\ dest.URI = Nil
     /\ \/ dest.Ref # Nil /\ ~HasDeprecatedField(dest)
        \/ dest.Ref = Nil /\ HasDeprecatedField(dest) /\ allowDeprecatedFields) =>
        LET f == ReferenceOf(dest)
            missing == MissingRequiredFields(f)
            others == SetOtherFields(f)
            prefix == IF dest.Ref # Nil THEN "ref." ELSE ""
        IN
        /\ fieldError = NoError <=> (RequiredFieldsSet(f) /\ OtherFieldsZero(f))
        /\ Len(fieldError) = Len(missing) + (IF others = <<>> THEN 0 ELSE 1)
        /\ \A i \in DOMAIN missing :
              /\ fieldError[i].Message = "missing field(s)"
              /\ fieldError[i].Paths = <<prefix \o missing[i]>>
        /\ others # <<>> =>
              LET last == fieldError[Len(fieldError)] IN
              /\ last.Message = "must not set the field(s)"
              /\ last.Paths = [j \in DOMAIN others |-> prefix \o others[j]]

\* A Destination with a Ref that lacks a name and has a namespace, and
\* nothing else, was validated: both faults are reported.
C14_Witness ==
    /\ op = "ValidateDestination"
    /\ dest.URI = Nil
    /\ dest.Ref # Nil
    /\ ~HasDeprecatedField(dest)
    /\ dest.Ref.Name = ""
    /\ dest.Ref.Namespace # ""
    /\ Len(fieldError) >= 2
    /\ fieldError[1].Paths = <<"ref.name">>

\* C15: GetRef returns nil for a nil receiver, Ref when Ref is set (also
\* when deprecated fields are set too), else the reference made of the
\* deprecated apiVersion, kind and name when one of them is not empty, else
\* nil; it leaves the Destination as it was.
C15_GetRef ==
    op = "GetRef" =>
        /\ destBefore = Nil => gotRef = Nil
        /\ destBefore # Nil =>
              /\ destBefore.Ref # Nil => gotRef = destBefore.Ref
              /\ (destBefore.Ref = Nil /\ HasDeprecatedField(destBefore)) =>
                    gotRef = [Kind |-> destBefore.DeprecatedKind,
                              Namespace |-> "",
                              Name |-> destBefore.DeprecatedName,
                              UID |-> "",
                              APIVersion |-> destBefore.DeprecatedAPIVersion,
                              ResourceVersion |-> "",
                              FieldPath |-> ""]
              /\ (destBefore.Ref = Nil /\ ~HasDeprecatedField(destBefore)) => gotRef = Nil
        /\ dest = destBefore

\* GetRef was called on a Destination with a Ref and a deprecated name and
\* returned the Ref.
C15_Witness ==
    /\ op = "GetRef"
    /\ destBefore # Nil
    /\ destBefore.Ref # Nil
    /\ destBefore.DeprecatedName # ""
    /\ gotRef = destBefore.Ref

\* The conditions ScalerSpec.Validate checks that the ScalerSpec violates.
ScalerFaults(ss) ==
    {f \in {"class", "minScale unset", "minScale < 0", "maxScale unset",
            "maxScale < 1", "maxScale < minScale"} :
        \/ f = "class" /\ ss.Class = ""
        \/ f = "minScale unset" /\ ss.MinScale = Nil
        \/ f = "minScale < 0" /\ ss.MinScale # Nil /\ ss.MinScale.val < 0
        \/ f = "maxScale unset" /\ ss.MaxScale = Nil
        \/ f = "maxScale < 1" /\ ss.MaxScale # Nil /\ ss.MaxScale.val < 1
        \/ f = "maxScale < minScale" /\ ss.MinScale # Nil /\ ss.MaxScale # Nil
                                       /\ ss.MaxScale.val < ss.MinScale.val}

\* The error reported for a violated condition is among the errors.
FaultReported(f, ss, errs) ==
    \E i \in DOMAIN errs :
        \/ f = "class" /\ errs[i].Message = "missing field(s)" /\ errs[i].Paths = <<"class">>
        \/ f = "minScale unset" /\ errs[i].Message = "missing field(s)"
                                /\ errs[i].Paths = <<"minScale">>
        \/ f = "maxScale unset" /\ errs[i].Message = "missing field(s)"
                                /\ errs[i].Paths = <<"maxScale">>
        \/ f = "minScale < 0"
              /\ errs[i].Message = "expected 0 <= " \o FormatInt(ss.MinScale.val) \o " <= 2147483647"
              /\ errs[i].Paths = <<"minScale">>
        \/ f = "maxScale < 1"
              /\ errs[i].Message = "expected 1 <= " \o FormatInt(ss.MaxScale.val) \o " <= 2147483647"
              /\ errs[i].Paths = <<"maxScale">>
        \/ f = "maxScale < minScale" /\ errs[i].Paths = <<"maxScale", "minScale">>

\* C16: ScalerSpec.Validate returns no error if and only if the receiver is
\* nil or the class is not empty, minScale and maxScale are set, minScale >=
\* 0, maxScale >= 1 and maxScale >= minScale; every violated condition is
\* reported, and the errors accumulate.
C16_ScalerSpecValidate ==
    op = "ScalerSpec.Validate" =>
        /\ fieldError = NoError <=>
              \/ scaler = Nil
              \/ /\ scaler.Class # ""
                 /\ scaler.MinScale # Nil
                 /\ scaler.MaxScale # Nil
                 /\ scaler.MinScale.val >= 0
                 /\ scaler.MaxScale.val >= 1
                 /\ scaler.MaxScale.val >= scaler.MinScale.val
        /\ scaler # Nil =>
              /\ Len(fieldError) = Cardinality(ScalerFaults(scaler))
              /\ \A f \in ScalerFaults(scaler) : FaultReported(f, scaler, fieldError)
        /\ scaler = scalerBefore

\* A ScalerSpec with no class, a negative minScale and a maxScale below it
\* was validated: four errors.
C16_Witness ==
    /\ op = "ScalerSpec.Validate"
    /\ scaler # Nil
    /\ scaler.Class = ""
    /\ scaler.MinScale = Int32Ptr(0 - 1)
    /\ scaler.MaxScale = Int32Ptr(0 - 2)
    /\ Len(fieldError) = 4

\* C17: SetDefault sets the class to keda only when it is empty, minScale to
\* 0 only when unset and maxScale to 1 only when unset; every field that
\* was set, and Options, stay as they were; a nil receiver stays nil; and
\* SetDefault applied again changes nothing.
C17_SetDefault ==
    op = "ScalerSpec.SetDefault" =>
        /\ scalerBefore = Nil => scaler = Nil
        /\ scalerBefore # Nil =>
              /\ scaler # Nil
              /\ scaler.Class = IF scalerBefore.Class = "" THEN "keda" ELSE scalerBefore.Class
              /\ scaler.MinScale = IF scalerBefore.MinScale = Nil THEN [val |-> 0]
                                   ELSE scalerBefore.MinScale
              /\ scaler.MaxScale = IF scalerBefore.MaxScale = Nil THEN [val |-> 1]
                                   ELSE scalerBefore.MaxScale
              /\ scaler.Options = scalerBefore.Options
        /\ SetDefault(scaler) = scaler

\* SetDefault was called on a ScalerSpec of class ksvc with options, a
\* maxScale and no minScale.
C17_Witness ==
    /\ op = "ScalerSpec.SetDefault"
    /\ scalerBefore # Nil
    /\ scalerBefore.Class = "ksvc"
    /\ scalerBefore.MinScale = Nil
    /\ scalerBefore.MaxScale = Int32Ptr(2)
    /\ scalerBefore.Options # Nil
    /\ scaler.MinScale = Int32Ptr(0)
    /\ scaler.Class = "ksvc"

====
